---- MODULE Spec2Model ----
(***************************************************************************)
(* Model of Kanata::event_loop (src/kanata/macos.rs): the macOS capture    *)
(* thread that reads raw key events, routes them to the processing thread  *)
(* or to the DriverKit output, and releases / re-grabs the input devices   *)
(* when the DriverKit output connection is lost and recovers.              *)
(*                                                                         *)
(* The capture thread is one process whose position is pc; every action    *)
(* below is one step of that thread between two points where another       *)
(* thread or the outside world can be observed.  The DriverKit sink, the   *)
(* configuration thread and the processing thread are the environment.     *)
(***************************************************************************)
EXTENDS Integers, Sequences, FiniteSets, TLC

\* ------------------------------------------------------------------ bounds
\* Number of distinct recognized key codes.
NumCodes == 1
\* Capacity of the bounded channel to the processing thread.
ChanCap == 2
\* Saturation point of the count of consecutive negative Waiting probes.
MaxPolls == 2

\* ------------------------------------------------------------- data model
Codes == 1..NumCodes
\* Raw hardware codes: 0 is a usage the conversion does not recognize.
RawCodes == 0..NumCodes
\* Raw hardware values: 0 = key up, 1 = key down, 2 = auto-repeat.
RawValues == 0..2
RawEvents == [code : RawCodes, value : RawValues]
KeyValues == {"Press", "Release", "Repeat"}
KeyEvents == [code : Codes, value : KeyValues]

NoEvent == [code |-> -1, value |-> -1]
NoKeyEvent == [code |-> -1, value |-> "None"]

VARIABLES
    pc,                    \* position of the capture thread
    allow_hardware_repeat, \* copied from the Kanata struct at entry
    kb,                    \* EventSource: "unopened", "grabbed", "released"
    needs_recovery,        \* value the inner loop broke with
    event,                 \* raw event of the current iteration
    key_event,             \* converted (and possibly rewritten) event
    sinkReady,             \* what is_sink_ready() returns right now
    mappedKeys,            \* MAPPED_KEYS
    pressedKeys,           \* PRESSED_KEYS
    chan,                  \* contents of the bounded channel behind tx
    rxAlive,               \* the receiver of the channel still exists
    held,                  \* locks the capture thread holds: "kanata", "mapped", "pressed"
    \* ---- observation variables (history, never read by the program) ----
    op,                    \* the last operation of the capture thread
    recov,                 \* progress of the recovery owed to a lost probe
    polls,                 \* consecutive negative Waiting probes (saturating)
    wroteEv,               \* argument of kbd_out.write in this iteration
    sentEv,                \* argument of tx.try_send in this iteration
    exitChecks,            \* check_for_exit calls in this iteration
    codeMapped,            \* was the code in MAPPED_KEYS when it was routed
    dupPress,              \* this event is a Press read while the code was held
    dupMapped,             \* the code was in heldMapped when dedup handled it
    trigger,               \* the signal that started the current recovery
    sinceRegrab,           \* "fresh": regrabbed, nothing read yet; "first": handling
                           \* the first event read after a regrab; else "none"
    attempts,              \* kbd_out.write and tx.try_send calls in this iteration
    heldRead,              \* codes with a Press read and no Release read since
    heldMapped             \* the same, counting only events found in MAPPED_KEYS

progVars == <<pc, allow_hardware_repeat, kb, needs_recovery, event, key_event,
              sinkReady, mappedKeys, pressedKeys, chan, rxAlive, held>>
obsVars == <<op, recov, polls, wroteEv, sentEv, exitChecks, codeMapped,
             dupPress, dupMapped, trigger, sinceRegrab, attempts, heldRead,
             heldMapped>>
vars == <<pc, allow_hardware_repeat, kb, needs_recovery, event, key_event,
          sinkReady, mappedKeys, pressedKeys, chan, rxAlive, held,
          op, recov, polls, wroteEv, sentEv, exitChecks, codeMapped,
          dupPress, dupMapped, trigger, sinceRegrab, attempts, heldRead,
          heldMapped>>

ReturnPcs == {"err_open", "err_read", "err_write", "err_send", "err_regrab",
              "ret_ok"}
WaitingPcs == {"wait_sleep", "wait_probe", "settle"}
\* Positions at which no event is being handled.
BetweenEvents == {"probe", "read", "outer", "wait_sleep", "wait_probe",
                  "settle", "regrab"} \cup ReturnPcs

\* --------------------------------------------------------- pure decisions
\* KeyEvent::try_from(InputEvent): fails on an unrecognized usage.
KeyValueFrom(v) ==
    IF v = 0 THEN "Release" ELSE IF v = 1 THEN "Press" ELSE "Repeat"

KeyEventTryFrom(ev) ==
    IF ev.code \in Codes
    THEN [code |-> ev.code, value |-> KeyValueFrom(ev.value)]
    ELSE NoKeyEvent

\* if !is_sink_ready() { break true; }
ProbeNext_NoBreak(ready) == "read"
ProbeNext(ready) == IF ready THEN "read" ELSE "outer"

\* break true: the value the inner loop yields when it is left for "outer"
BreakValue_False(next) == FALSE
BreakValue(next) == (next = "outer")

\* match kb.read(): Ok / UnexpectedEof / other error
ReadNext_EofFatal(res) ==
    IF res = "ok" THEN "convert" ELSE "err_read"
ReadNext(res) ==
    IF res = "ok" THEN "convert"
    ELSE IF res = "eof" THEN "outer" ELSE "err_read"

\* match kanata.kbd_out.write(event): Ok / NotConnected / other error
WriteNext_AlsoSend(res) ==
    IF res = "ok" THEN "dedup"
    ELSE IF res = "notconn" THEN "outer" ELSE "err_write"
WriteNext(res) ==
    IF res = "ok" THEN "probe"
    ELSE IF res = "notconn" THEN "outer" ELSE "err_write"

\* match KeyEvent::try_from(event): Ok goes on to check_for_exit, Err to the write
ConvertNext_SkipExit(ke) == IF ke = NoKeyEvent THEN "write_raw" ELSE "filter"
ConvertNext_DropUnrecognized(ke) == IF ke = NoKeyEvent THEN "probe" ELSE "check_exit"
ConvertNext(ke) == IF ke = NoKeyEvent THEN "write_raw" ELSE "check_exit"

\* if key_event.value == KeyValue::Repeat && !allow_hardware_repeat { continue; }
IsDropped_NotRelease(ke, allow) == ke.value # "Release" /\ ~allow
IsDropped_Never(ke, allow) == FALSE
IsDropped(ke, allow) == ke.value = "Repeat" /\ ~allow

\* if !MAPPED_KEYS.lock().contains(&key_event.code) { write } else fall through
RouteNext_AlwaysSend(ke, mapped) == "dedup"
RouteNext(ke, mapped) == IF ke.code \notin mapped THEN "write_unmapped" ELSE "dedup"

\* match key_event.value { Release => remove, Press => contains ? rewrite : insert }
DedupValue_NoRewrite(ke, pressed) == ke.value
DedupValue(ke, pressed) ==
    IF ke.value = "Press" /\ ke.code \in pressed THEN "Repeat" ELSE ke.value

DedupPressed_NoInsert(ke, pressed) ==
    IF ke.value = "Release" THEN pressed \ {ke.code} ELSE pressed
DedupPressed_NoRemove(ke, pressed) ==
    IF ke.value = "Press" THEN pressed \cup {ke.code} ELSE pressed
DedupPressed(ke, pressed) ==
    IF ke.value = "Release" THEN pressed \ {ke.code}
    ELSE IF ke.value = "Press" THEN pressed \cup {ke.code}
    ELSE pressed

\* Locks still held once drop(k) at entry has run.
EntryHeld == {}

\* Locks still held once the `kanata` guard of a kbd_out.write has left scope.
WriteHeld_KeptOnBreak(res) == IF res = "notconn" THEN {"kanata"} ELSE {}
WriteHeld(res) == {}

\* Locks held between the PRESSED_KEYS test and the insert / remove.
DedupLockHeld_Unlocked(ke) == {}
DedupLockHeld(ke) == IF ke.value \in {"Press", "Release"} THEN {"pressed"} ELSE {}

\* Locks still held when the match on key_event.value is left.
DedupDoneHeld == {}

\* PRESSED_KEYS across release_input: the recovery path does not touch it.
PressedAfterRelease_Cleared(pressed) == {}
PressedAfterRelease(pressed) == pressed

\* tx.try_send(key_event)?
SendNext_Ignore(ok) == "probe"
SendNext(ok) == IF ok THEN "probe" ELSE "err_send"

\* Waiting loop: if is_sink_ready() { sleep(1s); break; }
WaitNext_GiveUp(ready) == IF ready THEN "settle" ELSE "regrab"
WaitNext(ready) == IF ready THEN "settle" ELSE "wait_sleep"

\* if !kb.regrab_input() { bail!(...) }
RegrabNext_SkipProbe(ok) == IF ok THEN "read" ELSE "err_regrab"
RegrabNext_IgnoreFailure(ok) == "probe"
RegrabNext_Retry(ok) == IF ok THEN "probe" ELSE "wait_sleep"
RegrabNext(ok) == IF ok THEN "probe" ELSE "err_regrab"

\* ------------------------------------------------------------------- Init
Init ==
    /\ pc = "enter"
    /\ held = {}
    /\ allow_hardware_repeat \in BOOLEAN
    /\ kb = "unopened"
    /\ needs_recovery = FALSE
    /\ event = NoEvent
    /\ key_event = NoKeyEvent
    /\ sinkReady \in BOOLEAN
    /\ mappedKeys \in SUBSET Codes
    /\ pressedKeys = {}
    /\ chan = <<>>
    /\ rxAlive = TRUE
    /\ op = "init"
    /\ recov = 0
    /\ polls = 0
    /\ wroteEv = NoEvent
    /\ sentEv = NoKeyEvent
    /\ exitChecks = 0
    /\ codeMapped = "unknown"
    /\ dupPress = FALSE
    /\ dupMapped = FALSE
    /\ trigger = "none"
    /\ sinceRegrab = "none"
    /\ attempts = 0
    /\ heldRead = {}
    /\ heldMapped = {}

envFrame == UNCHANGED <<pc, allow_hardware_repeat, kb, needs_recovery, event,
                        key_event, pressedKeys, recov, polls, wroteEv, sentEv,
                        exitChecks, codeMapped, dupPress, dupMapped, trigger,
                        heldRead, heldMapped, op, held, sinceRegrab, attempts>>
keyFrame == UNCHANGED <<heldRead, heldMapped>>
iterFrame == UNCHANGED <<wroteEv, sentEv, exitChecks, codeMapped, dupPress,
                         dupMapped, attempts>>
worldFrame == UNCHANGED <<allow_hardware_repeat, sinkReady, mappedKeys, rxAlive>>
\* A step that neither takes nor drops a lock.
lockFrame == UNCHANGED held
\* The bindings of one inner-loop iteration go out of scope.
iterReset ==
    /\ event' = NoEvent
    /\ key_event' = NoKeyEvent
    /\ wroteEv' = NoEvent
    /\ sentEv' = NoKeyEvent
    /\ exitChecks' = 0
    /\ codeMapped' = "unknown"
    /\ dupPress' = FALSE
    /\ dupMapped' = FALSE
    /\ attempts' = 0

\* ---------------------------------------------------------- capture thread
\* kanata.lock(); copy allow_hardware_repeat and the device names; drop(k)
Enter ==
    /\ pc = "enter"
    /\ pc' = "open"
    /\ op' = "enter"
    /\ held' = EntryHeld
    /\ UNCHANGED <<kb, needs_recovery, event, key_event, pressedKeys, chan,
                   recov, polls, trigger>>
    /\ keyFrame /\ iterFrame /\ worldFrame /\ UNCHANGED sinceRegrab

\* KbdIn::new(include_names, exclude_names)
Open ==
    /\ pc = "open"
    /\ \E ok \in BOOLEAN :
          /\ kb' = IF ok THEN "grabbed" ELSE "unopened"
          /\ pc' = IF ok THEN "probe" ELSE "err_open"
          /\ op' = IF ok THEN "open_ok" ELSE "open_err"
    /\ UNCHANGED <<needs_recovery, event, key_event, pressedKeys, chan,
                   recov, polls, trigger>>
    /\ keyFrame /\ iterFrame /\ worldFrame /\ UNCHANGED sinceRegrab /\ lockFrame

\* Top of the inner loop: the liveness probe before the blocking read.
Probe ==
    /\ pc = "probe"
    /\ pc' = ProbeNext(sinkReady)
    /\ needs_recovery' = BreakValue(pc')
    /\ op' = IF sinkReady THEN "probe_true" ELSE "probe_false"
    /\ recov' = IF ~sinkReady /\ recov = 0 THEN 1 ELSE recov
    /\ trigger' = IF sinkReady THEN "none" ELSE "probe_false"
    /\ iterReset
    /\ UNCHANGED <<kb, pressedKeys, chan, polls>>
    /\ keyFrame /\ worldFrame
    /\ sinceRegrab' = (IF sinceRegrab = "first" THEN "none" ELSE sinceRegrab)
    /\ lockFrame

\* kb.read()
Read ==
    /\ pc = "read"
    /\ \E res \in {"ok", "eof", "err"} :
          /\ pc' = ReadNext(res)
          /\ op' = IF res = "ok" THEN "read_ok"
                   ELSE IF res = "eof" THEN "read_eof" ELSE "read_err"
          /\ needs_recovery' = BreakValue(pc')
          /\ IF res = "ok" THEN event' \in RawEvents ELSE event' = event
          /\ recov' = IF res = "eof" /\ recov = 0 THEN 1 ELSE recov
          /\ trigger' = IF res = "eof" THEN "read_eof" ELSE trigger
          /\ sinceRegrab' = IF res = "ok" /\ sinceRegrab = "fresh" THEN "first" ELSE "none"
    /\ UNCHANGED <<kb, key_event, pressedKeys, chan, polls>>
    /\ iterFrame
    /\ keyFrame /\ worldFrame /\ lockFrame

\* KeyEvent::try_from(event)
Convert ==
    /\ pc = "convert"
    /\ LET ke == KeyEventTryFrom(event) IN
          /\ key_event' = ke
          /\ pc' = ConvertNext(ke)
          /\ held' = IF pc' = "write_raw" THEN {"kanata"} ELSE held
          /\ op' = IF ke = NoKeyEvent THEN "convert_err" ELSE "convert_ok"
          /\ IF ke = NoKeyEvent
             THEN UNCHANGED <<dupPress, heldRead>>
             ELSE /\ dupPress' = (ke.value = "Press" /\ ke.code \in heldRead)
                  /\ heldRead' = IF ke.value = "Press" THEN heldRead \cup {ke.code}
                                 ELSE IF ke.value = "Release" THEN heldRead \ {ke.code}
                                 ELSE heldRead
    /\ UNCHANGED <<kb, needs_recovery, event, pressedKeys, chan, recov, polls,
                   wroteEv, sentEv, exitChecks, codeMapped, heldMapped,
                   dupMapped, trigger>>
    /\ worldFrame /\ UNCHANGED <<sinceRegrab, attempts>>

\* check_for_exit(&key_event)
CheckExit ==
    /\ pc = "check_exit"
    /\ exitChecks' = exitChecks + 1
    /\ pc' = "filter"
    /\ op' = "check_for_exit"
    /\ UNCHANGED <<kb, needs_recovery, event, key_event, pressedKeys, chan,
                   recov, polls, wroteEv, sentEv, codeMapped, dupPress,
                   dupMapped, trigger>>
    /\ keyFrame /\ worldFrame /\ UNCHANGED <<sinceRegrab, attempts>> /\ lockFrame

\* The hardware-repeat filter followed by the MAPPED_KEYS lookup.
Filter ==
    /\ pc = "filter"
    /\ codeMapped' = IF key_event.code \in mappedKeys THEN "yes" ELSE "no"
    /\ IF IsDropped(key_event, allow_hardware_repeat)
       THEN pc' = "probe" /\ op' = "drop_repeat"
       ELSE pc' = RouteNext(key_event, mappedKeys) /\ op' = "lookup"
    /\ held' = IF pc' = "write_unmapped" THEN {"kanata"} ELSE held
    /\ UNCHANGED <<kb, needs_recovery, event, key_event, pressedKeys, chan,
                   recov, polls, wroteEv, sentEv, exitChecks, dupPress,
                   dupMapped, trigger>>
    /\ keyFrame /\ worldFrame /\ UNCHANGED <<sinceRegrab, attempts>>

WriteStep(at) ==
    /\ pc = at
    /\ \E res \in {"ok", "notconn", "err"} :
          /\ pc' = WriteNext(res)
          /\ op' = IF res = "ok" THEN "write_ok"
                   ELSE IF res = "notconn" THEN "write_notconn" ELSE "write_err"
          /\ needs_recovery' = BreakValue(pc')
          /\ recov' = IF res = "notconn" /\ recov = 0 THEN 1 ELSE recov
          /\ trigger' = IF res = "notconn" THEN "write_notconn" ELSE trigger
          /\ held' = WriteHeld(res)
    /\ wroteEv' = event
    /\ attempts' = IF attempts < 2 THEN attempts + 1 ELSE attempts
    /\ UNCHANGED <<kb, event, key_event, pressedKeys, chan, polls,
                   sentEv, exitChecks, codeMapped, dupPress, dupMapped>>
    /\ keyFrame /\ worldFrame /\ UNCHANGED sinceRegrab

\* kanata.lock().kbd_out.write(event) for an unrecognized raw event
WriteUnrecognized == WriteStep("write_raw")

\* kanata.lock().kbd_out.write(event) for an unmapped key
WriteUnmapped == WriteStep("write_unmapped")

\* PRESSED_KEYS.lock() of the Release and Press arms.
DedupLock ==
    /\ pc = "dedup"
    /\ pc' = "dedup_held"
    /\ op' = "dedup_lock"
    /\ held' = DedupLockHeld(key_event)
    /\ UNCHANGED <<kb, needs_recovery, event, key_event, pressedKeys, chan,
                   recov, polls, trigger>>
    /\ keyFrame /\ iterFrame /\ worldFrame /\ UNCHANGED sinceRegrab

\* The PRESSED_KEYS bookkeeping of a mapped key, and the drop of the guard.
Dedup ==
    /\ pc = "dedup_held"
    /\ held' = DedupDoneHeld
    /\ key_event' = [key_event EXCEPT !.value = DedupValue(key_event, pressedKeys)]
    /\ pressedKeys' = DedupPressed(key_event, pressedKeys)
    /\ heldMapped' = IF key_event.value = "Press" THEN heldMapped \cup {key_event.code}
                     ELSE IF key_event.value = "Release" THEN heldMapped \ {key_event.code}
                     ELSE heldMapped
    /\ dupMapped' = (key_event.code \in heldMapped)
    /\ pc' = "send"
    /\ op' = "dedup"
    /\ UNCHANGED <<kb, needs_recovery, event, chan, recov, polls, heldRead,
                   wroteEv, sentEv, exitChecks, codeMapped, dupPress, trigger>>
    /\ worldFrame /\ UNCHANGED <<sinceRegrab, attempts>>

\* tx.try_send(key_event)?
Send ==
    /\ pc = "send"
    /\ LET ok == rxAlive /\ Len(chan) < ChanCap IN
          /\ chan' = IF ok THEN Append(chan, key_event) ELSE chan
          /\ pc' = SendNext(ok)
          /\ op' = IF ok THEN "send_ok" ELSE "send_fail"
    /\ sentEv' = key_event
    /\ attempts' = IF attempts < 2 THEN attempts + 1 ELSE attempts
    /\ UNCHANGED <<kb, needs_recovery, event, key_event, pressedKeys, recov,
                   polls, wroteEv, exitChecks, codeMapped, dupPress,
                   dupMapped, trigger>>
    /\ keyFrame /\ worldFrame /\ UNCHANGED sinceRegrab /\ lockFrame

\* After the inner loop: return Ok(()) or kb.release_input().
Outer ==
    /\ pc = "outer"
    /\ IF ~needs_recovery
       THEN /\ pc' = "ret_ok"
            /\ op' = "return_ok"
            /\ UNCHANGED <<kb, recov, polls, pressedKeys>>
       ELSE /\ kb' = "released"
            /\ pc' = "wait_sleep"
            /\ op' = "release_input"
            /\ recov' = IF recov = 1 THEN 2 ELSE recov
            /\ polls' = 0
            /\ pressedKeys' = PressedAfterRelease(pressedKeys)
    /\ iterReset
    /\ UNCHANGED <<needs_recovery, chan, trigger>>
    /\ keyFrame /\ worldFrame /\ UNCHANGED sinceRegrab /\ lockFrame

\* std::thread::sleep(500 ms)
WaitSleep ==
    /\ pc = "wait_sleep"
    /\ pc' = "wait_probe"
    /\ op' = "sleep_poll"
    /\ UNCHANGED <<kb, needs_recovery, event, key_event, pressedKeys, chan,
                   recov, polls, trigger>>
    /\ keyFrame /\ iterFrame /\ worldFrame
    /\ sinceRegrab' = "none" /\ lockFrame

\* if is_sink_ready() in the Waiting loop
WaitProbe ==
    /\ pc = "wait_probe"
    /\ pc' = WaitNext(sinkReady)
    /\ op' = IF sinkReady THEN "wait_probe_true" ELSE "wait_probe_false"
    /\ recov' = IF sinkReady /\ recov = 2 THEN 3 ELSE recov
    /\ polls' = IF sinkReady THEN 0
                ELSE IF polls < MaxPolls THEN polls + 1 ELSE polls
    /\ UNCHANGED <<kb, needs_recovery, event, key_event, pressedKeys, chan,
                   trigger>>
    /\ keyFrame /\ iterFrame /\ worldFrame /\ UNCHANGED sinceRegrab /\ lockFrame

\* std::thread::sleep(1 s); break
Settle ==
    /\ pc = "settle"
    /\ pc' = "regrab"
    /\ op' = "sleep_settle"
    /\ recov' = IF recov = 3 THEN 4 ELSE recov
    /\ UNCHANGED <<kb, needs_recovery, event, key_event, pressedKeys, chan,
                   polls, trigger>>
    /\ keyFrame /\ iterFrame /\ worldFrame /\ UNCHANGED sinceRegrab /\ lockFrame

\* kb.regrab_input()
Regrab ==
    /\ pc = "regrab"
    /\ \E ok \in BOOLEAN :
          /\ pc' = RegrabNext(ok)
          /\ op' = IF ok THEN "regrab_true" ELSE "regrab_false"
          /\ kb' = IF ok THEN "grabbed" ELSE kb
          /\ recov' = IF ok /\ recov = 4 THEN 0 ELSE recov
          /\ sinceRegrab' = IF ok THEN "fresh" ELSE sinceRegrab
          /\ needs_recovery' = IF ok THEN FALSE ELSE needs_recovery
    /\ polls' = 0
    /\ UNCHANGED <<event, key_event, pressedKeys, chan, trigger>>
    /\ keyFrame /\ iterFrame /\ worldFrame /\ lockFrame

\* ------------------------------------------------------------ environment
\* The DriverKit daemon goes away.
SinkDown ==
    /\ sinkReady
    /\ sinkReady' = FALSE
    /\ UNCHANGED <<mappedKeys, chan, rxAlive>>
    /\ envFrame

\* The DriverKit daemon comes back.
SinkUp ==
    /\ ~sinkReady
    /\ sinkReady' = TRUE
    /\ UNCHANGED <<mappedKeys, chan, rxAlive>>
    /\ envFrame

\* The configuration thread replaces MAPPED_KEYS (live reload).
ConfigReload ==
    /\ "mapped" \notin held
    /\ \E s \in SUBSET Codes :
          /\ s # mappedKeys
          /\ mappedKeys' = s
    /\ UNCHANGED <<sinkReady, chan, rxAlive>>
    /\ envFrame

\* The processing thread receives the oldest KeyEvent.
Recv ==
    /\ rxAlive
    /\ chan # <<>>
    /\ chan' = Tail(chan)
    /\ UNCHANGED <<sinkReady, mappedKeys, rxAlive>>
    /\ envFrame

\* The processing thread ends and drops the receiver.
RxDrop ==
    /\ rxAlive
    /\ rxAlive' = FALSE
    /\ chan' = <<>>
    /\ UNCHANGED <<sinkReady, mappedKeys>>
    /\ envFrame

WaitingStep == WaitSleep \/ WaitProbe \/ Settle \/ Regrab

Next ==
    \/ Enter
    \/ Open
    \/ Probe
    \/ Read
    \/ Convert
    \/ CheckExit
    \/ Filter
    \/ WriteUnrecognized
    \/ WriteUnmapped
    \/ DedupLock
    \/ Dedup
    \/ Send
    \/ Outer
    \/ WaitSleep
    \/ WaitProbe
    \/ Settle
    \/ Regrab
    \/ SinkDown
    \/ SinkUp
    \/ ConfigReload
    \/ Recv
    \/ RxDrop

Spec == Init /\ [][Next]_vars

\* The sleeps, the probe and regrab_input of the Waiting phase all return.
FairSpec == Spec /\ WF_vars(WaitingStep)

TypeOK ==
    /\ pc \in {"enter", "open", "probe", "read", "convert", "check_exit", "filter",
               "write_raw", "write_unmapped", "dedup", "dedup_held", "send", "outer",
               "regrab"} \cup WaitingPcs \cup ReturnPcs
    /\ allow_hardware_repeat \in BOOLEAN
    /\ kb \in {"unopened", "grabbed", "released"}
    /\ needs_recovery \in BOOLEAN
    /\ event \in RawEvents \cup {NoEvent}
    /\ key_event \in KeyEvents \cup {NoKeyEvent}
    /\ sinkReady \in BOOLEAN
    /\ mappedKeys \subseteq Codes
    /\ pressedKeys \subseteq Codes
    /\ Len(chan) <= ChanCap
    /\ rxAlive \in BOOLEAN
    /\ held \subseteq {"kanata", "mapped", "pressed"}
    /\ recov \in 0..4
    /\ polls \in 0..MaxPolls
    /\ exitChecks \in 0..1

\* ================================================================= claims
\* The capture thread's own state: what it alone writes.
captureVars == <<pc, kb, needs_recovery, event, key_event, pressedKeys, op,
                 recov, wroteEv, sentEv, exitChecks>>
\* After a return nothing of the capture thread moves and nothing is sent.
Halted == UNCHANGED captureVars /\ Len(chan') <= Len(chan)
\* The value the raw event of this iteration converts to ("None" if it does not).
RawValue == KeyEventTryFrom(event).value
\* The iteration that read `event` has finished handling it.
IterDone == event # NoEvent /\ pc \in {"probe", "outer"} \cup ReturnPcs
\* A converted event whose handling is past the routing decision.
Routed == key_event # NoKeyEvent /\ codeMapped # "unknown"

\* C1: once a recovery is owed (a capturing probe returned false), the thread
\* is at kb.read again only after release_input, a positive Waiting probe,
\* the settle delay and a successful regrab_input, in that order.
C1_NoReadUntilRecovered ==
    /\ (pc \in {"read", "convert"} \/ op \in {"read_ok", "read_eof", "read_err"})
          => (recov = 0 \/ (recov = 1 /\ op = "read_eof"))
    /\ op = "probe_false" => (recov = 1 /\ pc = "outer")
    /\ recov \in {2, 3, 4} => kb = "released"

C1_Witness ==
    /\ op = "regrab_true"
    /\ trigger = "probe_false"
    /\ pc = "probe"
    /\ recov = 0
    /\ kb = "grabbed"

\* C2: a failed regrab_input ends event_loop at once with the re-grab error;
\* nothing of the capture thread happens afterwards.
C2_RegrabFailureIsFatal ==
    /\ [](op = "regrab_false" => (pc = "err_regrab" /\ kb = "released"))
    /\ [][pc = "err_regrab" => Halted]_vars

C2_Witness ==
    /\ pc = "err_regrab"
    /\ op = "regrab_false"
    /\ recov = 4

\* C3 (as stated): of the Press events read for one code with no Release for
\* that code read in between, only the first is sent as Press, every later
\* one as Repeat.
C3_Original ==
    (sentEv # NoKeyEvent /\ RawValue = "Press")
       => sentEv = [code |-> event.code,
                    value |-> IF dupPress THEN "Repeat" ELSE "Press"]

\* C3 (amended): the same, counting only the Press and Release events whose
\* code the loop found in MAPPED_KEYS.
C3_MappedPressDedup ==
    (sentEv # NoKeyEvent /\ RawValue = "Press")
       => sentEv = [code |-> event.code,
                    value |-> IF dupMapped THEN "Repeat" ELSE "Press"]

C3_Witness ==
    /\ op = "send_ok"
    /\ RawValue = "Press"
    /\ dupMapped
    /\ sentEv.value = "Repeat"

\* C4 (as stated): after the loop has handled a Release, its code is not in
\* PRESSED_KEYS, whatever MAPPED_KEYS holds.
C4_Original ==
    (IterDone /\ RawValue = "Release") => key_event.code \notin pressedKeys

\* C4 (amended): after the loop has handled a Release whose code it found in
\* MAPPED_KEYS, the code is not in PRESSED_KEYS.
C4_MappedReleaseRemoves ==
    (RawValue = "Release" /\ codeMapped = "yes" /\ pc \notin {"dedup", "dedup_held"})
       => key_event.code \notin pressedKeys

C4_Witness ==
    /\ IterDone
    /\ RawValue = "Release"
    /\ codeMapped = "yes"
    /\ dupMapped
    /\ key_event.code \notin pressedKeys

\* C5 (as stated): every converted event whose code is not in MAPPED_KEYS is
\* written raw to the output and never sent downstream.
C5_Original ==
    (IterDone /\ Routed /\ codeMapped = "no")
       => (wroteEv = event /\ sentEv = NoKeyEvent)

\* C5 (amended): the same, except for a Repeat with allow_hardware_repeat
\* false, which is dropped before the lookup.
C5_UnmappedPassthrough ==
    (IterDone /\ Routed /\ codeMapped = "no"
        /\ ~(RawValue = "Repeat" /\ ~allow_hardware_repeat))
       => (wroteEv = event /\ sentEv = NoKeyEvent)

C5_Witness ==
    /\ IterDone
    /\ op = "write_ok"
    /\ codeMapped = "no"
    /\ RawValue = "Repeat"
    /\ wroteEv = event
    /\ sentEv = NoKeyEvent

\* C6: with allow_hardware_repeat false an event that converts to Repeat is
\* dropped: no write, no send, PRESSED_KEYS untouched, mapped or not.
C6_HardwareRepeatDropped ==
    /\ []((RawValue = "Repeat" /\ ~allow_hardware_repeat /\ Routed)
            => (pc = "probe" /\ op = "drop_repeat"
                /\ wroteEv = NoEvent /\ sentEv = NoKeyEvent))
    /\ [][(RawValue = "Repeat" /\ ~allow_hardware_repeat)
            => (pressedKeys' = pressedKeys /\ Len(chan') <= Len(chan))]_vars

C6_Witness ==
    /\ op = "drop_repeat"
    /\ codeMapped = "yes"
    /\ key_event.code \in pressedKeys
    /\ ~allow_hardware_repeat

\* C7 (as stated): between iterations a code is in PRESSED_KEYS iff the last
\* Press or Release converted for it was a Press (Repeats leave it held).
C7_Original ==
    pc \in BetweenEvents => pressedKeys = heldRead

\* C7 (amended): between iterations a code is in PRESSED_KEYS iff the last
\* Press or Release the loop found in MAPPED_KEYS for it was a Press.
C7_PressedIffMappedPress ==
    pc \in BetweenEvents => pressedKeys = heldMapped

C7_Witness ==
    /\ pc = "probe"
    /\ op = "send_ok"
    /\ pressedKeys # {}
    /\ pressedKeys # heldRead

\* C8: the three sink-unavailable signals break the inner loop with
\* needs_recovery = true and lead to release_input and the Waiting phase;
\* any other read or write error returns at once, the devices still grabbed.
C8_SignalsRecoverOthersFatal ==
    /\ [](op \in {"probe_false", "read_eof", "write_notconn"}
            => (pc = "outer" /\ needs_recovery /\ trigger = op))
    /\ [][(pc = "outer" /\ needs_recovery /\ pc' # pc)
            => (op' = "release_input" /\ pc' = "wait_sleep" /\ kb' = "released")]_vars
    /\ [](op = "read_err" => (pc = "err_read" /\ kb = "grabbed"))
    /\ [](op = "write_err" => (pc = "err_write" /\ kb = "grabbed"))
    /\ [][(pc \in {"err_read", "err_write"}) => Halted]_vars

C8_Witness ==
    /\ pc = "wait_sleep"
    /\ op = "release_input"
    /\ trigger = "write_notconn"
    /\ kb = "released"

\* C9: a failed tx.try_send ends event_loop at once: no retry, no write of
\* the event, no recovery cycle, no further read.
C9_SendFailureIsFatal ==
    /\ [](op = "send_fail"
            => (pc = "err_send" /\ sentEv = key_event /\ wroteEv = NoEvent
                /\ kb = "grabbed" /\ recov = 0))
    /\ [][pc = "err_send" => Halted]_vars

C9_Witness ==
    /\ pc = "err_send"
    /\ op = "send_fail"
    /\ rxAlive
    /\ Len(chan) = ChanCap

\* C10: while every Waiting probe is negative the thread stays in the Waiting
\* phase; once the sink is ready for good, regrab_input is eventually called.
C10_WaitsThenRegrabs ==
    /\ [](op = "wait_probe_false" => (pc = "wait_sleep" /\ kb = "released"))
    /\ [][(pc = "wait_probe" /\ ~sinkReady /\ pc' # pc) => pc' = "wait_sleep"]_vars
    /\ [][(pc \in WaitingPcs /\ pc' # pc) => pc' \in WaitingPcs \cup {"regrab"}]_vars
    /\ (<>[]sinkReady) => [](pc \in WaitingPcs => <>(pc \in {"probe", "err_regrab"}))

C10_Witness ==
    /\ pc = "wait_sleep"
    /\ op = "wait_probe_false"
    /\ polls = MaxPolls

\* C11: event_loop never returns Ok: the inner loop is only ever left with
\* needs_recovery = true, and every return is one of the five errors.
C11_NeverReturnsOk ==
    /\ pc # "ret_ok"
    /\ pc = "outer" => needs_recovery
    /\ pc = "err_open" => op = "open_err"
    /\ pc = "err_read" => op = "read_err"
    /\ pc = "err_write" => op = "write_err"
    /\ pc = "err_send" => op = "send_fail"
    /\ pc = "err_regrab" => op = "regrab_false"

C11_Witness ==
    /\ pc = "outer"
    /\ needs_recovery
    /\ trigger = "read_eof"

\* C12: check_for_exit runs exactly once for every event that converts, before
\* the Repeat filter and the routing, and never for one that does not convert.
C12_ExitCheckOncePerKeyEvent ==
    /\ (key_event = NoKeyEvent \/ pc = "check_exit") => exitChecks = 0
    /\ (key_event # NoKeyEvent /\ pc # "check_exit") => exitChecks = 1
    /\ (codeMapped # "unknown" \/ wroteEv # NoEvent \/ sentEv # NoKeyEvent)
          => exitChecks = (IF key_event = NoKeyEvent THEN 0 ELSE 1)

C12_Witness ==
    /\ op = "drop_repeat"
    /\ codeMapped = "no"
    /\ exitChecks = 1

\* C13: a raw event that does not convert is written unchanged to the output,
\* nothing is sent, PRESSED_KEYS stays, and a successful write continues the loop.
C13_UnrecognizedPassthrough ==
    /\ []((IterDone /\ key_event = NoKeyEvent)
            => (wroteEv = event /\ sentEv = NoKeyEvent))
    /\ []((op = "write_ok" /\ key_event = NoKeyEvent) => pc = "probe")
    /\ [][(event # NoEvent /\ KeyEventTryFrom(event) = NoKeyEvent)
            => (pressedKeys' = pressedKeys /\ Len(chan') <= Len(chan))]_vars

C13_Witness ==
    /\ pc = "probe"
    /\ op = "write_ok"
    /\ event # NoEvent
    /\ key_event = NoKeyEvent
    /\ wroteEv = event

\* Positions at which the capture thread is inside (or about to enter) a
\* blocking call: KbdIn::new, kb.read, release_input, the two sleeps, regrab_input.
BlockingPcs == {"open", "read", "outer", "wait_sleep", "settle", "regrab"}

\* C14: the capture thread holds no lock while it is in a blocking call, so
\* MAPPED_KEYS can be reloaded at any such moment.
C14_NoLockWhileBlocking ==
    /\ pc \in BlockingPcs \cup WaitingPcs => held = {}
    /\ held \subseteq {"kanata", "pressed"}
    /\ Cardinality(held) <= 1

C14_Witness ==
    /\ pc = "outer"
    /\ op = "write_notconn"
    /\ held = {}

C16_ProbeBeforeEveryRead ==
    /\ pc = "read" => op = "probe_true"
    /\ op = "regrab_true" => pc = "probe"
    /\ (sinceRegrab = "fresh" /\ op = "probe_false")
          => (pc = "outer" /\ needs_recovery /\ event = NoEvent)

C16_Witness ==
    /\ sinceRegrab = "fresh"
    /\ op = "probe_false"
    /\ pc = "outer"

\* C17: the EventSource is opened once, then released and re-grabbed in
\* strict alternation; while it is released nothing is read, written or sent.
C17_ReleaseRegrabLifecycle ==
    /\ [][kb' # kb
            => \/ (kb = "unopened" /\ kb' = "grabbed" /\ op = "enter" /\ op' = "open_ok")
               \/ (kb = "grabbed" /\ kb' = "released" /\ op' = "release_input")
               \/ (kb = "released" /\ kb' = "grabbed" /\ op' = "regrab_true")]_vars
    /\ [][(op' # op /\ op' \in {"open_ok", "open_err"}) => kb = "unopened"]_vars
    /\ [][(op' # op /\ op' = "release_input") => kb = "grabbed"]_vars
    /\ [][(op' # op /\ op' \in {"regrab_true", "regrab_false"})
            => (kb = "released" /\ op = "sleep_settle")]_vars
    /\ [](kb = "released"
            => (pc \in WaitingPcs \cup {"regrab", "err_regrab"} /\ event = NoEvent
                /\ wroteEv = NoEvent /\ sentEv = NoKeyEvent))
    /\ [][kb = "released" => Len(chan') <= Len(chan)]_vars
    /\ [](pc \in {"read", "convert", "write_raw", "write_unmapped", "send"}
            => kb = "grabbed")

C17_Witness ==
    /\ op = "release_input"
    /\ sinceRegrab = "fresh"
    /\ kb = "released"

\* C18: a Press on a mapped code is always passed to tx.try_send, as Repeat
\* when the code is already in PRESSED_KEYS, whatever allow_hardware_repeat
\* is; with it false a Repeat goes downstream only as such a rewritten Press.
C18_RewrittenRepeatStillSent ==
    /\ (IterDone /\ RawValue = "Press" /\ codeMapped = "yes")
          => sentEv = [code |-> event.code,
                       value |-> IF dupMapped THEN "Repeat" ELSE "Press"]
    /\ (sentEv.value = "Repeat" /\ ~allow_hardware_repeat) => RawValue = "Press"

C18_Witness ==
    /\ ~allow_hardware_repeat
    /\ op = "send_ok"
    /\ RawValue = "Press"
    /\ sentEv.value = "Repeat"

\* C19: release_input, the Waiting phase and regrab_input leave PRESSED_KEYS
\* as it was, so a Press of a code held before the recovery is sent as Repeat.
C19_RecoveryKeepsPressedKeys ==
    /\ [][(pc \in {"outer", "regrab"} \cup WaitingPcs) => pressedKeys' = pressedKeys]_vars
    /\ [](op \in {"release_input", "regrab_true"} => pressedKeys = heldMapped)
    /\ []((sinceRegrab = "first" /\ sentEv # NoKeyEvent /\ RawValue = "Press" /\ dupMapped)
            => sentEv.value = "Repeat")

C19_Witness ==
    /\ sinceRegrab = "first"
    /\ op = "send_ok"
    /\ RawValue = "Press"
    /\ sentEv.value = "Repeat"

\* C20: an iteration makes at most one output attempt, a write or a send but
\* never both; each send appends the KeyEvent of the event being handled at
\* the tail of the channel, once, and the receiver takes from the head.
C20_OneOutputInOrder ==
    /\ [](attempts <= 1)
    /\ [](attempts = (IF wroteEv # NoEvent THEN 1 ELSE 0)
                        + (IF sentEv # NoKeyEvent THEN 1 ELSE 0))
    /\ [][Len(chan') > Len(chan)
            => (/\ chan' = Append(chan, key_event)
                /\ sentEv = NoKeyEvent /\ sentEv' = key_event
                /\ key_event.code = event.code
                /\ event' = event)]_vars
    /\ [][Len(chan') < Len(chan) => (chan' = Tail(chan) \/ ~rxAlive')]_vars

C20_Witness ==
    /\ op = "send_ok"
    /\ Len(chan) = 2
    /\ chan[2] = key_event
    /\ chan[1] # chan[2]
    /\ attempts = 1
====
